---- MODULE Spec2Model ----
(***************************************************************************)
(* Model of the interactive project bootstrapper (src/src/main.rs).        *)
(*                                                                         *)
(* One session: main acquires the terminal, get_project_name reads the     *)
(* project name, get_selected_language reads the language, main dispatches *)
(* to the project initializer and restores the terminal.                   *)
(*                                                                         *)
(* Text is a sequence of fragments: a typed name is the sequence of its    *)
(* characters, a string literal of the program is a single fragment.       *)
(***************************************************************************)
EXTENDS Integers, Sequences, FiniteSets, TLC

\* ------------------------------------------------------------------ bounds
\* Number of input events get_project_name may read in one session.
MaxKeys == 3

\* Width of usize in the model (the program's is 64; the arithmetic of
\* `selected` is the same modulo 2^UsizeBits).
UsizeBits == 3

RECURSIVE Pow2(_)
Pow2(k) == IF k = 0 THEN 1 ELSE 2 * Pow2(k - 1)

UsizeModulus == Pow2(UsizeBits)

\* ------------------------------------------------------------ input events
NoMods == {}
CONTROL == {"CONTROL"}

KeyEvent(code, ch, mods) ==
    [kind |-> "Key", code |-> code, ch |-> ch, mods |-> mods]

\* Result slot of a read that has not produced an event.
NoEvent == [kind |-> "None", code |-> "None", ch |-> "", mods |-> NoMods]

\* Event::Resize, one of the non-key events crossterm::event::read returns.
ResizeEvent == [kind |-> "Resize", code |-> "None", ch |-> "", mods |-> NoMods]

Chars == {"a", "c"}

Events ==
    {KeyEvent("Char", ch, NoMods) : ch \in Chars}
    \cup {KeyEvent("Char", "c", CONTROL),
          KeyEvent("Char", "a", CONTROL),
          KeyEvent("Char", "c", {"CONTROL", "ALT"}),
          KeyEvent("Enter", "", NoMods),
          KeyEvent("Backspace", "", NoMods),
          KeyEvent("Up", "", NoMods),
          KeyEvent("Down", "", NoMods),
          KeyEvent("Esc", "", NoMods),
          ResizeEvent}

\* ---------------------------------------------------------- language table
ProjectLanguage == {"Rust", "Web", "Cpp", "Ocaml", "Haskell"}

Exists(command, args, automatic_new_folder) ==
    [tag |-> "Exists", command |-> command, args |-> args,
     automatic_new_folder |-> automatic_new_folder, file |-> <<>>]

NotExists(file) ==
    [tag |-> "NotExists", command |-> "", args |-> <<>>,
     automatic_new_folder |-> FALSE, file |-> file]

\* The table with the folder flag of cabal flipped.
LANGUAGES_FlippedFolder ==
    [l \in ProjectLanguage |->
        CASE l = "Rust"    -> Exists("cargo", <<"new">>, TRUE)
          [] l = "Web"     -> NotExists(<<"index.html">>)
          [] l = "Cpp"     -> NotExists(<<"src", "main.cpp">>)
          [] l = "Ocaml"   -> Exists("dune", <<"init", "project">>, TRUE)
          [] l = "Haskell" -> Exists("cabal", <<"init">>, TRUE)]

LANGUAGES ==
    [l \in ProjectLanguage |->
        CASE l = "Rust"    -> Exists("cargo", <<"new">>, TRUE)
          [] l = "Web"     -> NotExists(<<"index.html">>)
          [] l = "Cpp"     -> NotExists(<<"src", "main.cpp">>)
          [] l = "Ocaml"   -> Exists("dune", <<"init", "project">>, TRUE)
          [] l = "Haskell" -> Exists("cabal", <<"init">>, FALSE)]

NumLanguages == Cardinality(DOMAIN LANGUAGES)

\* LANGUAGES is a HashMap: LANGUAGES.iter() enumerates its entries in an
\* order fixed when the map is built, which is any order of the keys.
IterationOrders ==
    {s \in [1..NumLanguages -> ProjectLanguage] :
        \A i, j \in 1..NumLanguages : s[i] = s[j] => i = j}

\* impl Display for ProjectLanguage
Display(l) ==
    CASE l = "Rust"    -> "rust"
      [] l = "Web"     -> "web"
      [] l = "Cpp"     -> "cpp"
      [] l = "Ocaml"   -> "ocaml"
      [] l = "Haskell" -> "haskell"

\* ------------------------------------------------------------ text helpers
Last(s) == s[Len(s)]
Front(s) == SubSeq(s, 1, Len(s) - 1)

\* String::push with the character put in front.
PushFront(s, c) == <<c>> \o s

\* String::push
Push(s, c) == Append(s, c)

\* String::pop that drops the first character.
PopFirst(s) == IF s = <<>> THEN s ELSE Tail(s)

\* String::pop (result discarded): None on an empty string.
Pop(s) == IF s = <<>> THEN s ELSE Front(s)


\* ------------------------------------------------------------------- state
VARIABLES
    pc,            \* position of the process
    overflowChecks,\* build profile: TRUE panics on integer overflow, FALSE wraps
    altScreen,     \* terminal is on the alternate screen
    rawMode,       \* terminal is in raw mode
    acquired,      \* main has entered the alternate screen and raw mode
    releases,      \* completed (LeaveAlternateScreen, disable_raw_mode) pairs
    keys,          \* events the running get_project_name has read, in order
    lastEvent,     \* value of the latest crossterm::event::read()
    project_name,  \* the String built by get_project_name
    result,        \* what get_project_name returned
    order,         \* iteration order of LANGUAGES, <<>> before its first use
    selected,      \* the cursor of get_selected_language
    run,           \* current run of identical arrow keys in the selection
    screen,        \* what the latest redraw put on the display
    renders,       \* redraws done by the latest loop iteration
    language,      \* what get_selected_language returned
    ops,           \* file-system and process operations done by main, in order
    cwd,           \* working directory, relative to the one at start
    status,        \* exit status, -1 while the process has none
    ioFault        \* a read of the input or a write of the display has failed

vars == <<pc, overflowChecks, altScreen, rawMode, acquired, releases, keys,
          lastEvent, project_name, result, order, selected, run, screen,
          renders, language, ops, cwd, status, ioFault>>

termVars == <<altScreen, rawMode, acquired, releases>>
nameVars == <<keys, project_name, result>>
selVars == <<order, selected, run, language>>
fsVars == <<ops, cwd>>

NoResult == [tag |-> "None", name |-> <<>>]
Ok(name) == [tag |-> "Ok", name |-> name]
GracefulShutdown == [tag |-> "GracefulShutdown", name |-> <<>>]
Io == [tag |-> "Io", name |-> <<>>]

NoRun == [code |-> "None", start |-> 0, count |-> 0]

BlankScreen == [text |-> <<>>, menu |-> <<>>]

\* Exit status of a Rust process that panicked.
PanicStatus == 101

Init ==
    /\ pc = "start"
    /\ overflowChecks \in BOOLEAN
    /\ altScreen = FALSE
    /\ rawMode = FALSE
    /\ acquired = FALSE
    /\ releases = 0
    /\ keys = <<>>
    /\ lastEvent = NoEvent
    /\ project_name = <<>>
    /\ result = NoResult
    /\ order = <<>>
    /\ selected = 0
    /\ run = NoRun
    /\ screen = BlankScreen
    /\ renders = 0
    /\ language = "None"
    /\ ops = <<>>
    /\ cwd = <<>>
    /\ status = -1
    /\ ioFault = FALSE

\* A panic (unwrap on Err, panic!, overflow check): the process ends with
\* status 101 and whatever terminal state it had.
Panic ==
    /\ pc' = "panicked"
    /\ status' = PanicStatus

\* --------------------------------------------------------- main, lines 85-86
\* and the clear_screen that opens get_project_name (line 147).
Acquire ==
    /\ UNCHANGED ioFault
    /\ pc = "start"
    /\ pc' = "name"
    /\ altScreen' = TRUE
    /\ rawMode' = TRUE
    /\ acquired' = TRUE
    /\ screen' = BlankScreen
    /\ UNCHANGED <<overflowChecks, releases, nameVars, lastEvent, selVars,
                   renders, fsVars, status>>

\* stage 1: EnterAlternateScreen fails; 2: enable_raw_mode fails;
\* 3: clear_screen fails, get_project_name returns Err(Io), main panics.
AcquireFails ==
    /\ pc = "start"
    /\ \E stage \in 1..3 :
        /\ altScreen' = (stage >= 2)
        /\ rawMode' = (stage >= 3)
        /\ acquired' = (stage >= 3)
        /\ result' = IF stage = 3 THEN Io ELSE result
        /\ ioFault' = (stage = 3)
    /\ Panic
    /\ UNCHANGED <<overflowChecks, releases, keys, project_name, lastEvent,
                   selVars, screen, renders, fsVars>>

\* ------------------------------------------------- get_project_name, 150-169
\* The interrupt test written as key.modifiers.contains(CONTROL).
IsInterrupt_AnyControl(e) ==
    e.kind = "Key" /\ e.code = "Char" /\ e.ch = "c" /\ "CONTROL" \in e.mods

IsInterrupt(e) ==
    e.kind = "Key" /\ e.code = "Char" /\ e.ch = "c" /\ e.mods = CONTROL

\* One pass of the while-let: the outcome of the event and the buffer after it.
\* The pass of the while-let in which any other key empties the buffer.
NameStep_OtherKeyClears(buf, e) ==
    CASE e.kind # "Key"       -> [outcome |-> "Ok", buf |-> buf]
      [] IsInterrupt(e)       -> [outcome |-> "GracefulShutdown", buf |-> buf]
      [] e.code = "Enter"     -> [outcome |-> "Ok", buf |-> buf]
      [] e.code = "Backspace" -> [outcome |-> "continue", buf |-> Pop(buf)]
      [] e.code = "Char"      -> [outcome |-> "continue", buf |-> Push(buf, e.ch)]
      [] OTHER                -> [outcome |-> "continue", buf |-> <<>>]

NameStep(buf, e) ==
    CASE e.kind # "Key"       -> [outcome |-> "Ok", buf |-> buf]
      [] IsInterrupt(e)       -> [outcome |-> "GracefulShutdown", buf |-> buf]
      [] e.code = "Enter"     -> [outcome |-> "Ok", buf |-> buf]
      [] e.code = "Backspace" -> [outcome |-> "continue", buf |-> Pop(buf)]
      [] e.code = "Char"      -> [outcome |-> "continue", buf |-> Push(buf, e.ch)]
      [] OTHER                -> [outcome |-> "continue", buf |-> buf]

\* One pass of the loop that draws the buffer as it was before the key.
NameKey_StaleRender(e) ==
    /\ UNCHANGED ioFault
    /\ pc = "name"
    /\ Len(keys) < MaxKeys
    /\ LET step == NameStep(project_name, e) IN
        /\ keys' = Append(keys, e)
        /\ lastEvent' = e
        /\ project_name' = step.buf
        /\ IF step.outcome = "continue"
           THEN /\ pc' = "name"
                /\ result' = result
                /\ screen' = [text |-> project_name, menu |-> <<>>]
                /\ renders' = 1
           ELSE /\ pc' = "name_returned"
                /\ result' = IF step.outcome = "Ok" THEN Ok(step.buf)
                             ELSE GracefulShutdown
                /\ screen' = screen
                /\ renders' = 0
    /\ UNCHANGED <<overflowChecks, termVars, selVars, fsVars, status>>

NameKey(e) ==
    /\ UNCHANGED ioFault
    /\ pc = "name"
    /\ Len(keys) < MaxKeys
    /\ LET step == NameStep(project_name, e) IN
        /\ keys' = Append(keys, e)
        /\ lastEvent' = e
        /\ project_name' = step.buf
        /\ IF step.outcome = "continue"
           THEN /\ pc' = "name"
                /\ result' = result
                /\ screen' = [text |-> step.buf, menu |-> <<>>]
                /\ renders' = 1
           ELSE /\ pc' = "name_returned"
                /\ result' = IF step.outcome = "Ok" THEN Ok(step.buf)
                             ELSE GracefulShutdown
                /\ screen' = screen
                /\ renders' = 0
    /\ UNCHANGED <<overflowChecks, termVars, selVars, fsVars, status>>

\* The redraw after the key (clear_screen, queue!, flush) fails: Err(Io).
NameKeyDisplayFails(e) ==
    /\ ioFault' = TRUE
    /\ pc = "name"
    /\ Len(keys) < MaxKeys
    /\ NameStep(project_name, e).outcome = "continue"
    /\ keys' = Append(keys, e)
    /\ lastEvent' = e
    /\ project_name' = NameStep(project_name, e).buf
    /\ pc' = "name_returned"
    /\ result' = Io
    /\ renders' = 0
    /\ UNCHANGED <<overflowChecks, termVars, selVars, screen, fsVars, status>>

\* crossterm::event::read() returns Err: unwrap panics.
NameReadFails ==
    /\ ioFault' = TRUE
    /\ pc = "name"
    /\ lastEvent' = NoEvent
    /\ renders' = 0
    /\ Panic
    /\ UNCHANGED <<overflowChecks, termVars, nameVars, selVars, screen, fsVars>>

\* ------------------------------------------- terminal restore, 130-131/221-222
\* stage 1: LeaveAlternateScreen fails; 2: disable_raw_mode fails.
RestoreFails ==
    /\ \E stage \in 1..2 :
        /\ altScreen' = (stage < 2 /\ altScreen)
        /\ rawMode' = rawMode
    /\ UNCHANGED <<acquired, releases>>
    /\ Panic

\* The restore that ends the process with exit(1).
Restore_ExitOne ==
    /\ altScreen' = FALSE
    /\ rawMode' = FALSE
    /\ releases' = releases + 1
    /\ acquired' = acquired
    /\ pc' = "exited"
    /\ status' = 1

Restore ==
    /\ altScreen' = FALSE
    /\ rawMode' = FALSE
    /\ releases' = releases + 1
    /\ acquired' = acquired
    /\ pc' = "exited"
    /\ status' = 0

\* main, line 90: exit_program_gracefully
ExitGracefully ==
    /\ UNCHANGED ioFault
    /\ pc = "name_returned"
    /\ result.tag = "GracefulShutdown"
    /\ Restore
    /\ UNCHANGED <<overflowChecks, nameVars, lastEvent, selVars, screen,
                   renders, fsVars>>

ExitGracefullyFails ==
    /\ UNCHANGED ioFault
    /\ pc = "name_returned"
    /\ result.tag = "GracefulShutdown"
    /\ RestoreFails
    /\ UNCHANGED <<overflowChecks, nameVars, lastEvent, selVars, screen,
                   renders, fsVars>>

\* main resuming name entry after Err(Io) instead of panicking.
PanicOnIo_Retry ==
    /\ UNCHANGED ioFault
    /\ pc = "name_returned"
    /\ result.tag = "Io"
    /\ pc' = "name"
    /\ UNCHANGED <<overflowChecks, termVars, nameVars, lastEvent, selVars,
                   screen, renders, fsVars, status>>

\* main, line 91: panic!("{e}")
PanicOnIo ==
    /\ UNCHANGED ioFault
    /\ pc = "name_returned"
    /\ result.tag = "Io"
    /\ Panic
    /\ UNCHANGED <<overflowChecks, termVars, nameVars, lastEvent, selVars,
                   screen, renders, fsVars>>

\* ---------------------------------------------------- print_selection, 174-194
\* The menu lines in iteration order; the line whose index equals `sel`
\* carries the "> " marker.
MenuLines(ord, sel) ==
    [i \in 1..Len(ord) |->
        [marker |-> IF i - 1 = sel THEN "> " ELSE "  ",
         label |-> Display(ord[i])]]

\* ------------------------------------------- get_selected_language, 196-217
\* selected -= 1 on a usize: panics with overflow checks, wraps without.
UsizeDec(n, checks) ==
    IF n > 0 THEN [panic |-> FALSE, value |-> n - 1]
    ELSE IF checks THEN [panic |-> TRUE, value |-> n]
    ELSE [panic |-> FALSE, value |-> UsizeModulus - 1]

\* selected += 1 on a usize.
UsizeInc(n, checks) ==
    IF n < UsizeModulus - 1 THEN [panic |-> FALSE, value |-> n + 1]
    ELSE IF checks THEN [panic |-> TRUE, value |-> n]
    ELSE [panic |-> FALSE, value |-> 0]

\* The match on key.code (lines 204-211).
SelectStep(sel, e, checks) ==
    CASE e.kind # "Key"   -> [outcome |-> "continue", sel |-> sel]
      [] e.code = "Up"    ->
            LET r == UsizeDec(sel, checks) IN
            [outcome |-> IF r.panic THEN "panic" ELSE "continue", sel |-> r.value]
      [] e.code = "Down"  ->
            LET r == UsizeInc(sel, checks) IN
            [outcome |-> IF r.panic THEN "panic" ELSE "continue", sel |-> r.value]
      [] e.code = "Enter" -> [outcome |-> "break", sel |-> sel]
      [] OTHER            -> [outcome |-> "continue", sel |-> sel]

\* The lookup that skips one entry more than the cursor says.
Nth_OffByOne(ord, sel) == IF sel + 1 < Len(ord) THEN ord[sel + 2] ELSE "None"

\* LANGUAGES.iter().nth(selected)
Nth(ord, sel) == IF sel < Len(ord) THEN ord[sel + 1] ELSE "None"

\* The run of identical arrow keys after event e arrived at cursor `sel`.
NextRun(r, sel, e) ==
    IF e.kind = "Key" /\ e.code \in {"Up", "Down"}
    THEN IF r.code = e.code
         THEN [r EXCEPT !.count = IF @ <= NumLanguages THEN @ + 1 ELSE @]
         ELSE [code |-> e.code, start |-> sel, count |-> 1]
    ELSE NoRun

\* main, line 89 and 94: get_project_name returned Ok, get_selected_language
\* starts: first use of LANGUAGES, cursor 0, first redraw.
SelectStart ==
    /\ UNCHANGED ioFault
    /\ pc = "name_returned"
    /\ result.tag = "Ok"
    /\ pc' = "select"
    /\ order' \in IterationOrders
    /\ selected' = 0
    /\ run' = NoRun
    /\ screen' = [text |-> <<>>, menu |-> MenuLines(order', 0)]
    /\ renders' = 1
    /\ keys' = <<>>        \* the history of get_project_name ends with it
    /\ UNCHANGED <<overflowChecks, termVars, project_name, result, lastEvent,
                   language, fsVars, status>>

\* cursor::Hide, clear_screen or print_selection fails before the first read.
SelectStartFails ==
    /\ ioFault' = TRUE
    /\ pc = "name_returned"
    /\ result.tag = "Ok"
    /\ Panic
    /\ UNCHANGED <<overflowChecks, termVars, nameVars, lastEvent, selVars,
                   screen, renders, fsVars>>

\* One pass of the loop that draws the menu with the cursor before the key.
SelectKey_StaleRender(e) ==
    /\ UNCHANGED ioFault
    /\ pc = "select"
    /\ LET step == SelectStep(selected, e, overflowChecks) IN
        /\ lastEvent' = e
        /\ selected' = step.sel
        /\ run' = NextRun(run, selected, e)
        /\ CASE step.outcome = "continue" ->
                    /\ pc' = "select"
                    /\ screen' = [text |-> <<>>,
                                  menu |-> MenuLines(order, selected)]
                    /\ renders' = 1
                    /\ UNCHANGED <<language, status>>
             [] step.outcome = "break" /\ Nth(order, step.sel) # "None" ->
                    /\ pc' = "dispatch"
                    /\ language' = Nth(order, step.sel)
                    /\ renders' = 0
                    /\ UNCHANGED <<screen, status>>
             [] OTHER ->
                    /\ Panic
                    /\ renders' = 0
                    /\ UNCHANGED <<screen, language>>
    /\ UNCHANGED <<overflowChecks, termVars, nameVars, order, fsVars>>

SelectKey(e) ==
    /\ UNCHANGED ioFault
    /\ pc = "select"
    /\ LET step == SelectStep(selected, e, overflowChecks) IN
        /\ lastEvent' = e
        /\ selected' = step.sel
        /\ run' = NextRun(run, selected, e)
        /\ CASE step.outcome = "continue" ->
                    /\ pc' = "select"
                    /\ screen' = [text |-> <<>>,
                                  menu |-> MenuLines(order, step.sel)]
                    /\ renders' = 1
                    /\ UNCHANGED <<language, status>>
             [] step.outcome = "break" /\ Nth(order, step.sel) # "None" ->
                    /\ pc' = "dispatch"
                    /\ language' = Nth(order, step.sel)
                    /\ renders' = 0
                    /\ UNCHANGED <<screen, status>>
             [] OTHER ->
                    \* overflow panic, or unwrap of nth() = None
                    /\ Panic
                    /\ renders' = 0
                    /\ UNCHANGED <<screen, language>>
    /\ UNCHANGED <<overflowChecks, termVars, nameVars, order, fsVars>>

\* The display write that follows the key fails (clear_screen or
\* print_selection of the next pass, cursor::Show after the loop).
SelectKeyDisplayFails(e) ==
    /\ ioFault' = TRUE
    /\ pc = "select"
    /\ SelectStep(selected, e, overflowChecks).outcome # "panic"
    /\ lastEvent' = e
    /\ selected' = SelectStep(selected, e, overflowChecks).sel
    /\ run' = NextRun(run, selected, e)
    /\ renders' = 0
    /\ Panic
    /\ UNCHANGED <<overflowChecks, termVars, nameVars, order, language,
                   screen, fsVars>>

\* crossterm::event::read() returns Err: unwrap panics.
SelectReadFails ==
    /\ ioFault' = TRUE
    /\ pc = "select"
    /\ lastEvent' = NoEvent
    /\ renders' = 0
    /\ Panic
    /\ UNCHANGED <<overflowChecks, termVars, nameVars, selVars, screen, fsVars>>

\* ------------------------------------------------------------ main, 96-127
FsOp(op, path) == [op |-> op, path |-> path, argv |-> <<>>]
ExecOp(argv, dir) == [op |-> "exec", path |-> dir, argv |-> argv]

\* Cmd::new(command).args(&args).arg(&project_name)
Argv(command, name) == <<<<command.command>>>> \o
                       [i \in 1..Len(command.args) |-> <<command.args[i]>>] \o
                       <<name>>

\* The operations of main with the leaf file created before its directories.
Plan_LeafFirst(lang, name) ==
    LET entry == LANGUAGES[lang]
        project_dir == <<name>>
    IN  IF entry.tag = "Exists" /\ entry.automatic_new_folder
        THEN <<ExecOp(Argv(entry, name), <<>>)>>
        ELSE IF entry.tag = "Exists"
        THEN <<FsOp("create_dir", project_dir),
               FsOp("set_current_dir", project_dir),
               ExecOp(Argv(entry, name), project_dir)>>
        ELSE LET file_name == <<Last(entry.file)>>
                 path == [i \in 1..(Len(entry.file) - 1) |-> <<entry.file[i]>>]
             IN <<FsOp("create_dir", project_dir),
                  FsOp("set_current_dir", project_dir),
                  FsOp("File::create", project_dir \o path \o <<file_name>>),
                  FsOp("write_all", project_dir \o path \o <<file_name>>),
                  FsOp("create_dir_all", project_dir \o path),
                  FsOp("set_current_dir", project_dir \o path)>>

\* The operations main performs for a language, in program order. Paths are
\* sequences of components relative to the directory the process started in.
Plan(lang, name) ==
    LET entry == LANGUAGES[lang]
        project_dir == <<name>>
    IN  IF entry.tag = "Exists" /\ entry.automatic_new_folder
        THEN <<ExecOp(Argv(entry, name), <<>>)>>
        ELSE IF entry.tag = "Exists"
        THEN <<FsOp("create_dir", project_dir),
               FsOp("set_current_dir", project_dir),
               ExecOp(Argv(entry, name), project_dir)>>
        ELSE LET file_name == <<Last(entry.file)>>
                 path == [i \in 1..(Len(entry.file) - 1) |-> <<entry.file[i]>>]
             IN <<FsOp("create_dir", project_dir),
                  FsOp("set_current_dir", project_dir),
                  FsOp("create_dir_all", project_dir \o path),
                  FsOp("set_current_dir", project_dir \o path),
                  FsOp("File::create", project_dir \o path \o <<file_name>>),
                  FsOp("write_all", project_dir \o path \o <<file_name>>)>>

\* create_dir of the empty name names the current directory (or no path at
\* all) and always fails.
MustFail(op) == op.op = "create_dir" /\ op.path = <<<<>>>>

\* create_dir_all of an empty relative path returns Ok without a system call.
CannotFail(plan, i) ==
    /\ plan[i].op = "create_dir_all"
    /\ i > 1
    /\ plan[i].path = plan[i - 1].path

\* The working directory after the first k operations of the plan.
CwdAfter(plan, k) ==
    LET S == {i \in 1..k : plan[i].op = "set_current_dir"}
    IN  IF S = {} THEN <<>>
        ELSE plan[CHOOSE i \in S : \A j \in S : j <= i].path

\* The first k operations succeed. A failing file-system operation panics
\* (unwrap); exec that succeeds replaces the process; exec that fails
\* returns an error main drops, and main goes on to restore the terminal.
Dispatch ==
    /\ UNCHANGED ioFault
    /\ pc = "dispatch"
    /\ LET plan == Plan(language, result.name) IN
       \E k \in 0..Len(plan) :
        /\ \A i \in 1..k : ~MustFail(plan[i])
        /\ k < Len(plan) => ~CannotFail(plan, k + 1)
        /\ cwd' = CwdAfter(plan, k)
        /\ IF k = Len(plan)
           THEN /\ ops' = plan
                /\ pc' = IF Last(plan).op = "exec" THEN "execed" ELSE "release"
                /\ status' = status
           ELSE IF plan[k + 1].op = "exec"
           THEN /\ ops' = plan
                /\ pc' = "release"
                /\ status' = status
           ELSE /\ ops' = SubSeq(plan, 1, k)
                /\ Panic
    /\ UNCHANGED <<overflowChecks, termVars, nameVars, lastEvent, selVars,
                   screen, renders>>

\* main, lines 130-133
Release ==
    /\ UNCHANGED ioFault
    /\ pc = "release"
    /\ Restore
    /\ UNCHANGED <<overflowChecks, nameVars, lastEvent, selVars, screen,
                   renders, fsVars>>

ReleaseFails ==
    /\ UNCHANGED ioFault
    /\ pc = "release"
    /\ RestoreFails
    /\ UNCHANGED <<overflowChecks, nameVars, lastEvent, selVars, screen,
                   renders, fsVars>>

\* ------------------------------------------------------------ specification
Next ==
    \/ Acquire
    \/ AcquireFails
    \/ \E e \in Events : NameKey(e)
    \/ \E e \in Events : NameKeyDisplayFails(e)
    \/ NameReadFails
    \/ ExitGracefully
    \/ ExitGracefullyFails
    \/ PanicOnIo
    \/ SelectStart
    \/ SelectStartFails
    \/ \E e \in Events : SelectKey(e)
    \/ \E e \in Events : SelectKeyDisplayFails(e)
    \/ SelectReadFails
    \/ Dispatch
    \/ Release
    \/ ReleaseFails

Spec == Init /\ [][Next]_vars

TypeOK ==
    /\ pc \in {"start", "name", "name_returned", "select", "dispatch",
               "release", "exited", "panicked", "execed"}
    /\ selected \in 0..(UsizeModulus - 1)
    /\ Len(keys) <= MaxKeys
    /\ releases \in 0..1

\* ------------------------------------------------------------------ claims
Ended == pc \in {"exited", "panicked", "execed"}

\* C1: every exit path of a session that acquired the terminal (normal end,
\* cancellation, I/O failure, replacement by the initializer) has released
\* it exactly once: off the alternate screen and out of raw mode.
C1_ReleasedOnceOnEveryExit ==
    (acquired /\ Ended) => (releases = 1 /\ ~rawMode /\ ~altScreen)

\* C2: nothing of the dispatch (no directory, no file, no external command)
\* happens while the terminal is still in raw mode or on the alternate screen.
C2_ReleasedBeforeDispatch ==
    ops # <<>> => (~rawMode /\ ~altScreen)

\* C3: once the interrupt chord has been read, in name entry or in the
\* selection, the session is cancelled: get_project_name's GracefulShutdown
\* is the outcome, no later phase runs and no language or project results.
C3_InterruptCancels ==
    IsInterrupt(lastEvent) =>
        /\ result = GracefulShutdown
        /\ pc \in {"name_returned", "exited", "panicked"}
        /\ language = "None"
        /\ ops = <<>>

\* The selection reads a key with the given code in this step.
SelectReads(code) ==
    /\ pc = "select"
    /\ lastEvent'.kind = "Key"
    /\ lastEvent'.code = code

\* C4: Up at cursor 0 yields cursor n-1, Down at cursor n-1 yields cursor 0,
\* and Enter after an Up pressed at cursor 0 confirms index n-1.
C4_WrapAtBoundaries ==
    [][ /\ (SelectReads("Up") /\ selected = 0)
            => selected' = NumLanguages - 1
        /\ (SelectReads("Down") /\ selected = NumLanguages - 1)
            => selected' = 0
        /\ (SelectReads("Enter") /\ run.code = "Up" /\ run.start = 0
                /\ run.count = 1)
            => (selected' = NumLanguages - 1 /\ language' = order[NumLanguages])
      ]_vars

MarkedLines == {i \in 1..Len(screen.menu) : screen.menu[i].marker = "> "}

\* C5: the cursor is always in [0, n): every menu on the display has exactly
\* one marked line, and the index looked up on Enter is in range.
C5_CursorInRange ==
    /\ pc = "select" =>
        (selected \in 0..(NumLanguages - 1) /\ Cardinality(MarkedLines) = 1)
    /\ (order # <<>> /\ pc # "select" /\ lastEvent.code = "Enter") =>
        selected \in 0..(NumLanguages - 1)

\* C6: n presses of Down in a row, or n presses of Up in a row, starting at
\* a cursor i in [0, n), bring the cursor back to i.
C6_CyclicPresses ==
    (run.code \in {"Up", "Down"} /\ run.count = NumLanguages
        /\ run.start \in 0..(NumLanguages - 1))
    => selected = run.start

IsPrintable(e) == e.kind = "Key" /\ e.code = "Char" /\ e.mods = NoMods

\* C7: after printable-character keys followed by Enter, the submitted name
\* is those characters in the order typed, and neither the buffer nor the
\* submitted name changes once name entry has returned.
C7_TextFidelity ==
    /\ [](( /\ pc = "name_returned"
            /\ result.tag = "Ok"
            /\ keys # <<>>
            /\ Last(keys).code = "Enter"
            /\ \A i \in 1..(Len(keys) - 1) : IsPrintable(keys[i]))
          => (/\ result.name = [i \in 1..(Len(keys) - 1) |-> keys[i].ch]
              /\ project_name = result.name))
    /\ [][pc \notin {"start", "name"} =>
            (project_name' = project_name /\ result' = result)]_vars

C7_Witness ==
    /\ pc = "name_returned"
    /\ keys = <<KeyEvent("Char", "a", NoMods), KeyEvent("Char", "c", NoMods),
                KeyEvent("Enter", "", NoMods)>>
    /\ result = Ok(<<"a", "c">>)

\* C8: Backspace on an empty buffer leaves it empty and name entry goes on
\* without a panic or an error of its own; on a non-empty buffer it removes
\* exactly the last character. (A failure of the display write that follows
\* is the only error the step can return.)
C8_Backspace ==
    [][ (/\ pc = "name"
         /\ Len(keys') = Len(keys) + 1
         /\ Last(keys').code = "Backspace")
        => /\ project_name' = IF project_name = <<>> THEN <<>>
                              ELSE SubSeq(project_name, 1, Len(project_name) - 1)
           /\ pc' # "panicked"
           /\ result'.tag \in {"None", "Io"}
           /\ result'.tag = "None" => pc' = "name"
      ]_vars

C8_Witness ==
    /\ pc = "name"
    /\ keys = <<KeyEvent("Char", "a", NoMods), KeyEvent("Backspace", "", NoMods),
                KeyEvent("Backspace", "", NoMods)>>
    /\ project_name = <<>>

LanguageList == <<"Rust", "Web", "Cpp", "Ocaml", "Haskell">>

\* C9: the menu is rust, web, cpp, ocaml, haskell in every session, k Down
\* presses from cursor 0 put the cursor on k, and Enter returns the item of
\* that list at the cursor.
C9_FixedMenuOrder ==
    /\ order # <<>> => order = LanguageList
    /\ (pc = "select" /\ run.code = "Down" /\ run.start = 0
            /\ run.count < NumLanguages) => selected = run.count
    /\ pc = "dispatch" => language = LanguageList[selected + 1]

ExpectedCommandOps(lang, name) ==
    CASE lang = "Rust" ->
            <<[op |-> "exec", path |-> <<>>,
               argv |-> <<<<"cargo">>, <<"new">>, name>>]>>
      [] lang = "Ocaml" ->
            <<[op |-> "exec", path |-> <<>>,
               argv |-> <<<<"dune">>, <<"init">>, <<"project">>, name>>]>>
      [] lang = "Haskell" ->
            <<[op |-> "create_dir", path |-> <<name>>, argv |-> <<>>],
              [op |-> "set_current_dir", path |-> <<name>>, argv |-> <<>>],
              [op |-> "exec", path |-> <<name>>,
               argv |-> <<<<"cabal">>, <<"init">>, name>>]>>

\* C10: for rust, ocaml and haskell the dispatch runs the configured
\* executable with its arguments and then the project name; the project
\* directory is created and entered first for haskell and never for rust or
\* ocaml; nothing else is created.
C10_CommandDispatch ==
    (language \in {"Rust", "Ocaml", "Haskell"} /\ pc # "dispatch") =>
        LET expected == ExpectedCommandOps(language, result.name) IN
        /\ \E k \in 0..Len(expected) : ops = SubSeq(expected, 1, k)
        /\ pc \in {"execed", "release", "exited"} => ops = expected
        /\ cwd = IF language = "Haskell" /\ Len(ops) >= 2
                 THEN <<result.name>> ELSE <<>>

C10_Witness ==
    /\ pc = "execed"
    /\ language = "Haskell"
    /\ result.name = <<"a">>
    /\ Len(ops) = 3
    /\ cwd = <<<<"a">>>>

\* What the stub-file languages are to leave on disk, in order: the project
\* directory, the intermediate directories, the leaf file.
ExpectedStubCreations(lang, name) ==
    CASE lang = "Web" ->
            <<[op |-> "create_dir", path |-> <<name>>],
              [op |-> "File::create", path |-> <<name, <<"index.html">>>>]>>
      [] lang = "Cpp" ->
            <<[op |-> "create_dir", path |-> <<name>>],
              [op |-> "create_dir_all", path |-> <<name, <<"src">>>>],
              [op |-> "File::create",
               path |-> <<name, <<"src">>, <<"main.cpp">>>>]>>

\* Index sequence of the operations that create a directory or a file
\* (create_dir_all of the directory main is already in creates nothing).
RECURSIVE Creations(_, _)
Creations(log, dir) ==
    IF log = <<>> THEN <<>>
    ELSE LET o == Head(log)
             here == IF o.op = "set_current_dir" THEN o.path ELSE dir
             made == \/ o.op \in {"create_dir", "File::create"}
                     \/ (o.op = "create_dir_all" /\ o.path # dir)
         IN  (IF made THEN <<[op |-> o.op, path |-> o.path]>> ELSE <<>>)
             \o Creations(Tail(log), here)

\* C11: for web and cpp the dispatch creates the directory <name>, then the
\* intermediate directories of the configured path, then the leaf file
\* (<name>/index.html, <name>/src/main.cpp), in that order, each created
\* path lying in an existing directory, and runs no external process.
C11_StubDispatch ==
    (language \in {"Web", "Cpp"} /\ pc # "dispatch") =>
        LET expected == ExpectedStubCreations(language, result.name)
            made == Creations(ops, <<>>)
        IN  /\ \E k \in 0..Len(expected) : made = SubSeq(expected, 1, k)
            /\ pc \in {"release", "exited"} => made = expected
            /\ \A i \in 1..Len(ops) : ops[i].op # "exec"
            /\ pc # "execed"

C11_Witness ==
    /\ pc = "exited"
    /\ language = "Cpp"
    /\ result.name = <<"a">>
    /\ Len(ops) = 6
    /\ cwd = <<<<"a">>, <<"src">>>>

Cancelled == result = GracefulShutdown

InAlphabet(e) ==
    e.kind = "Key" /\ e.code \in {"Up", "Down", "Enter", "Char", "Backspace"}

\* C13: an event outside the input alphabet changes nothing: name entry
\* keeps its buffer and goes on editing (it returns neither a name nor a
\* cancellation), the selection keeps its cursor and goes on.
C13_OtherEventsIgnored ==
    [][ /\ (/\ pc = "name"
            /\ Len(keys') = Len(keys) + 1
            /\ ~InAlphabet(Last(keys')))
           => /\ project_name' = project_name
              /\ result'.tag \notin {"Ok", "GracefulShutdown"}
              /\ ~ioFault' => pc' = "name"
        /\ (/\ pc = "select"
            /\ lastEvent' \in Events
            /\ ~InAlphabet(lastEvent'))
           => /\ selected' = selected
              /\ language' = language
              /\ ~ioFault' => pc' = "select"
      ]_vars

\* C14: after a failed read of the input or a failed write of the display,
\* in name entry or in the selection, the session is over: no event is read
\* any more, no language is returned, nothing is dispatched, and the process
\* ends with a non-zero status; the only step left is main's panic on the
\* Err(Io) that get_project_name returned.
C14_IoFailureIsFatal ==
    /\ [](ioFault =>
            /\ pc \in {"name_returned", "panicked"}
            /\ pc = "name_returned" => result = Io
            /\ language = "None"
            /\ ops = <<>>
            /\ Ended => (status # 0 /\ status = PanicStatus))
    /\ [][ioFault =>
            /\ pc' = "panicked"
            /\ lastEvent' = lastEvent
            /\ keys' = keys
            /\ selected' = selected
            /\ ops' = ops]_vars

C14_Witness ==
    /\ ioFault
    /\ pc = "panicked"
    /\ status = PanicStatus
    /\ result = Io
    /\ keys = <<KeyEvent("Char", "a", NoMods)>>

\* Name entry reads an event in this step.
NameReads == pc = "name" /\ Len(keys') = Len(keys) + 1

ShowsCursor(scr, c) ==
    /\ Len(scr.menu) = NumLanguages
    /\ scr.text = <<>>
    /\ \A i \in 1..NumLanguages :
        /\ scr.menu[i].label = Display(order[i])
        /\ scr.menu[i].marker = IF i = c + 1 THEN "> " ELSE "  "

\* C16: whenever the selection waits for input, the pass that led there has
\* drawn the menu exactly once and with the current cursor: cursor 0 before
\* the first read, the updated cursor after every key that does not end the
\* selection; a key that ends it draws nothing.
C16_RenderBeforeEveryRead ==
    /\ [](pc = "select" => (renders = 1 /\ ShowsCursor(screen, selected)))
    /\ [][ /\ (pc # "select" /\ pc' = "select") => selected' = 0
           /\ (pc = "select" /\ pc' # "select") =>
                    (renders' = 0 /\ screen' = screen)
         ]_vars

C16_Witness ==
    /\ pc = "select"
    /\ selected = 2
    /\ run = [code |-> "Down", start |-> 0, count |-> 2]
    /\ renders = 1
    /\ screen.menu[3].marker = "> "

\* The interrupt chord as the claims name it: 'c' with exactly CONTROL.
IsCtrlC(e) == e.code = "Char" /\ e.ch = "c" /\ e.mods = {"CONTROL"}

\* Append-at-end for each character key and remove-last for each Backspace
\* of the first n events of ks, in order, starting from the empty buffer.
RECURSIVE Replay(_, _)
Replay(ks, n) ==
    IF n = 0 THEN <<>>
    ELSE LET b == Replay(ks, n - 1)
             e == ks[n]
         IN  CASE e.code = "Char" /\ ~IsCtrlC(e) -> b \o <<e.ch>>
               [] e.code = "Backspace" /\ b # <<>> -> SubSeq(b, 1, Len(b) - 1)
               [] OTHER -> b

\* C17: while name entry runs or has just returned, the buffer is the
\* replay of the keys read (append-at-end per character key, remove-last per
\* Backspace, nothing for any other event); so a character key followed by
\* Backspace gives back the buffer there was before the two.
C17_AppendAndRemoveLastOnly ==
    pc \in {"name", "name_returned"} =>
        /\ project_name = Replay(keys, Len(keys))
        /\ (/\ Len(keys) >= 2
            /\ keys[Len(keys)].code = "Backspace"
            /\ keys[Len(keys) - 1].code = "Char"
            /\ ~IsCtrlC(keys[Len(keys) - 1]))
           => project_name = Replay(keys, Len(keys) - 2)
        /\ result.tag = "Ok" => result.name = project_name

C17_Witness ==
    /\ pc = "name"
    /\ keys = <<KeyEvent("Char", "a", NoMods), KeyEvent("Char", "c", NoMods),
                KeyEvent("Backspace", "", NoMods)>>
    /\ project_name = <<"a">>

\* C18: a language returned by the selection is the one whose line carried
\* the "> " marker in the latest menu on the display, and that menu marked
\* no other line.
C18_ReturnsMarkedLanguage ==
    language # "None" =>
        /\ Cardinality(MarkedLines) = 1
        /\ \A i \in MarkedLines : screen.menu[i].label = Display(language)
        /\ lastEvent.code = "Enter"

C18_Witness ==
    /\ pc = "dispatch"
    /\ selected = 3
    /\ language = "Web"
    /\ screen.menu[4] = [marker |-> "> ", label |-> "web"]

\* C19: in name entry the session is cancelled by the key 'c' with exactly
\* the CONTROL modifier and by nothing else; every other character key, with
\* or without modifiers, is appended to the buffer and name entry goes on.
C19_OnlyCtrlCCancels ==
    [][ NameReads =>
            LET e == Last(keys') IN
            /\ result'.tag = "GracefulShutdown" <=> (e.kind = "Key" /\ IsCtrlC(e))
            /\ (e.kind = "Key" /\ e.code = "Char" /\ ~IsCtrlC(e)) =>
                    /\ project_name' = project_name \o <<e.ch>>
                    /\ result'.tag \in {"None", "Io"}
                    /\ ~ioFault' => pc' = "name"
      ]_vars

C19_Witness ==
    /\ pc = "name"
    /\ keys = <<KeyEvent("Char", "c", NoMods),
                KeyEvent("Char", "c", {"CONTROL", "ALT"}),
                KeyEvent("Char", "a", CONTROL)>>
    /\ project_name = <<"c", "c", "a">>

====
